---- MODULE Spec2Model ----
(***************************************************************************)
(* Model of app.py: the lesson-reflection submission pipeline.             *)
(*                                                                         *)
(* Three specifications share the module's variables:                      *)
(*   Spec       request threads running submit() concurrently, each step   *)
(*              one access to shared state (database, files, lock, Drive)  *)
(*   SpecStore  sequential calls of the draft and history store functions  *)
(*   SpecDraft  store_draft / load_draft / delete_draft running            *)
(*              concurrently, at the granularity of the file system calls  *)
(***************************************************************************)
EXTENDS Integers, Sequences, FiniteSets, TLC

(***************************************************************************)
(* Text. A text that the code inspects character by character is a         *)
(* sequence of one-character strings; identifiers and keys, which the code *)
(* only concatenates and compares, are strings.                            *)
(***************************************************************************)
UpperChars == <<"A", "B", "C", "D", "E", "F", "G", "H", "I", "J", "K", "L", "M",
                "N", "O", "P", "Q", "R", "S", "T", "U", "V", "W", "X", "Y", "Z">>

LowerChars == <<"a", "b", "c", "d", "e", "f", "g", "h", "i", "j", "k", "l", "m",
                "n", "o", "p", "q", "r", "s", "t", "u", "v", "w", "x", "y", "z">>

DigitChars == <<"0", "1", "2", "3", "4", "5", "6", "7", "8", "9">>

WhiteChars == {" ", "\t", "\n"}

Range(s) == {s[i] : i \in DOMAIN s}

\* str.lower() of one character
LowerChar(c) ==
    IF c \in Range(UpperChars)
    THEN LowerChars[CHOOSE i \in DOMAIN UpperChars : UpperChars[i] = c]
    ELSE c

\* the character class [a-z0-9] of slugify's pattern
IsSlugChar(c) == c \in Range(LowerChars) \cup Range(DigitChars)

RECURSIVE StripLeft(_, _)
StripLeft(s, drop) ==
    IF s # <<>> /\ Head(s) \in drop THEN StripLeft(Tail(s), drop) ELSE s

RECURSIVE StripRight(_, _)
StripRight(s, drop) ==
    IF s # <<>> /\ s[Len(s)] \in drop
    THEN StripRight(SubSeq(s, 1, Len(s) - 1), drop)
    ELSE s

\* str.strip(chars)
StripChars(s, drop) == StripRight(StripLeft(s, drop), drop)

\* re.sub(r"[^a-z0-9]+", "-", value): every maximal run of other characters
\* becomes one "-"
RECURSIVE CollapseRuns(_, _)
CollapseRuns(s, inRun) ==
    IF s = <<>> THEN <<>>
    ELSE IF IsSlugChar(Head(s)) THEN <<Head(s)>> \o CollapseRuns(Tail(s), FALSE)
    ELSE IF inRun THEN CollapseRuns(Tail(s), TRUE)
    ELSE <<"-">> \o CollapseRuns(Tail(s), TRUE)

\* a character sequence as the string it spells
RECURSIVE JoinChars(_)
JoinChars(s) == IF s = <<>> THEN "" ELSE Head(s) \o JoinChars(Tail(s))

\* str(index) of a natural number
RECURSIVE IntToStr(_)
IntToStr(n) ==
    IF n < 10 THEN DigitChars[n + 1]
    ELSE IntToStr(n \div 10) \o DigitChars[(n % 10) + 1]

slugify(value) ==
    LET lowered == [i \in DOMAIN StripChars(value, WhiteChars) |->
                        LowerChar(StripChars(value, WhiteChars)[i])]
        dashed  == StripChars(CollapseRuns(lowered, FALSE), {"-"})
    IN  IF dashed = <<>> THEN "student" ELSE JoinChars(dashed)

\* the loop of new_student_id as a single if: one suffixed candidate is built and
\* returned without a second look at the existing ids
NextFreeId_OneTry(base, candidate, index, existing) ==
    IF candidate \in existing THEN base \o "-" \o IntToStr(index) ELSE candidate

\* the while loop of new_student_id, entered with the candidate and the next index
RECURSIVE NextFreeId(_, _, _, _)
NextFreeId(base, candidate, index, existing) ==
    IF candidate \in existing
    THEN NextFreeId(base, base \o "-" \o IntToStr(index), index + 1, existing)
    ELSE candidate

new_student_id(name, existing) ==
    NextFreeId("student-" \o slugify(name), "student-" \o slugify(name), 1, existing)

build_student_key(teacher_id, identifier) == teacher_id \o "__" \o identifier

(***************************************************************************)
(* State.                                                                  *)
(***************************************************************************)
VARIABLES
    students,       \* table students of app.db: id -> row
    draft_files,    \* DRAFT_DIR: student key -> content of <key>.json
    history_files,  \* HISTORY_DIR: student key -> content of <key>.json
    history_lock,   \* the thread holding history_lock, or NoThread
    drive,          \* the folders in Google Drive
    docs,           \* the Google Docs documents created so far
    clock,          \* the number of timestamp() calls made so far
    pc,             \* per request thread: its position in submit()
    form,           \* per request thread: request.form and the session's teacher
    loc,            \* per request thread: the locals of submit()
    calls,          \* per request thread: the Drive folder calls it has made
    client_pc,      \* per store client: its position in the store function it runs
    client_op,      \* per store client: the call it runs or ran last (last) and, in
                    \* SpecStore, the two calls before it
    client_ret,     \* per store client: what its last call returned
    appended        \* per student key: the payloads passed to append_history, in order

vars == <<students, draft_files, history_files, history_lock, drive, docs, clock,
          pc, form, loc, calls, client_pc, client_op, client_ret, appended>>

submitVars == <<pc, form, loc, calls>>

clientVars == <<client_pc, client_op, client_ret>>

remoteVars == <<drive, docs>>

(***************************************************************************)
(* Bounds and the inputs the model draws from.                             *)
(***************************************************************************)
\* append_history calls SpecHistory makes on the first key: above the cap of 20, so
\* that the log is cut
MaxAppends == 25

\* append_history calls SpecHistory makes on each other key, in between
MaxOtherAppends == 2

\* store_draft calls made in SpecStore and in SpecDraft
MaxDraftStores == 3

\* entries[-20:] in append_history
HistoryCap == 20

Threads == {"r1", "r2"}

NoThread == "none"

Ann == <<"A", "n", "n">>

\* the row bootstrap_students leaves in the table, before or after its first submission
AnnId == "student-ann"

SeedFolder == "folder-0"

Bodies == {"b1"}

\* a file's content: complete JSON text, or what a reader sees while write_text is
\* under way: nothing yet (the file was truncated on open) or a proper prefix
Complete(data) == [state |-> "complete", data |-> data]

Truncated == [state |-> "truncated"]

Partial == [state |-> "partial"]

NoStudent == [id |-> "", name |-> <<>>, grade |-> "", memo |-> "", driveFolderId |-> ""]

NoOutcome == [status |-> 0, stage |-> ""]

\* Python's None, where a function returns a record or None
None == [none |-> TRUE]

(***************************************************************************)
(* Files: load_json, save_json and the paths of the two stores.            *)
(***************************************************************************)
DraftPath(student_key) == student_key \o ".json"

HistoryPath(student_key) == student_key \o ".json"

\* path.exists()
Exists(files, path) == path \in DOMAIN files

\* load_json: the default when the file is missing or its text is not JSON
load_json(files, path, default) ==
    IF ~Exists(files, path) THEN default
    ELSE IF files[path].state = "complete" THEN files[path].data
    ELSE default

\* write_text, first half: open(path, "w") creates the file or truncates it
OpenForWrite(files, path) == (path :> Truncated) @@ files

\* write_text, in between: part of the text has reached the file
WritePart(files, path) == (path :> Partial) @@ files

\* write_text, second half: the whole text has reached the file
WriteText(files, path, data) == (path :> Complete(data)) @@ files

\* save_json that creates the file and leaves an existing one as it is
\* (open(path, "x") semantics)
save_json_KeepsExisting(files, path, data) ==
    IF Exists(files, path) THEN files ELSE WriteText(OpenForWrite(files, path), path, data)

\* save_json as one call
save_json(files, path, data) == WriteText(OpenForWrite(files, path), path, data)

\* path.unlink(missing_ok=True)
Unlink(files, path) == [q \in DOMAIN files \ {path} |-> files[q]]

\* the record store_draft builds
DraftContent(student_key, payload, now) ==
    [studentKey |-> student_key, payload |-> payload, updatedAt |-> now]

\* s[-n:]
LastN(s, n) == IF Len(s) <= n THEN s ELSE SubSeq(s, Len(s) - n + 1, Len(s))

\* AppendEntry cutting the list from the wrong end: entries[:20]
AppendEntry_KeepsOldest(history, payload, now) ==
    [history EXCEPT !.entries =
        SubSeq(Append(history.entries, [payload |-> payload, savedAt |-> now]), 1,
               IF Len(history.entries) + 1 <= HistoryCap
               THEN Len(history.entries) + 1 ELSE HistoryCap)]

\* append_history between load_json and save_json
AppendEntry(history, payload, now) ==
    [history EXCEPT !.entries =
        LastN(Append(history.entries, [payload |-> payload, savedAt |-> now]), HistoryCap)]

EmptyHistory == [entries |-> <<>>]

(***************************************************************************)
(* The students table.                                                     *)
(***************************************************************************)
\* find_student: the row as a dict, drive_folder_id renamed, or None
find_student(table, student_id) ==
    IF student_id \in DOMAIN table
    THEN [id            |-> student_id,
          name          |-> table[student_id].name,
          grade         |-> table[student_id].grade,
          memo          |-> table[student_id].memo,
          driveFolderId |-> table[student_id].drive_folder_id]
    ELSE None

\* a or b, for strings and for sequences
OrElse(a, b, empty) == IF a # empty THEN a ELSE b

\* next_payload of upsert_student_record; existing is the selected row or None
NextPayload(student, existing) ==
    [name  |-> OrElse(student.name, IF existing # None THEN existing.name ELSE <<>>, <<>>),
     grade |-> OrElse(student.grade, IF existing # None THEN existing.grade ELSE "", ""),
     memo  |-> OrElse(student.memo, IF existing # None THEN existing.memo ELSE "", ""),
     drive_folder_id |->
         OrElse(student.driveFolderId,
                IF existing # None THEN existing.drive_folder_id ELSE "", "")]

\* the SELECT of upsert_student_record
SelectStudent(table, student_id) ==
    IF student_id \in DOMAIN table THEN table[student_id] ELSE None

(***************************************************************************)
(* submit(): the inputs.                                                   *)
(***************************************************************************)
SubmittedIdentifiers == {"", AnnId, "student-x"}

SubmittedKeys == {"", build_student_key("T1", AnnId)}

BlankForm ==
    [teacher_id |-> "", student_mode |-> "", student_id |-> "",
     student_identifier |-> "", student_key |-> "", new_student_name |-> <<>>,
     new_student_grade |-> "", new_student_memo |-> "", body |-> ""]

\* teacher T1's forms for Ann (as the existing student, or under the new-student
\* tab) with every combination of the hidden fields; the two forms that fail
\* validation; and teacher T2's plain forms
SubmitForms ==
    {[BlankForm EXCEPT !.teacher_id = "T1", !.student_mode = "existing",
                       !.student_id = AnnId, !.student_identifier = ident,
                       !.student_key = key, !.body = b] :
        ident \in SubmittedIdentifiers \ {AnnId}, key \in SubmittedKeys, b \in Bodies}
    \cup
    {[BlankForm EXCEPT !.teacher_id = "T1", !.student_mode = "new",
                       !.new_student_name = <<" ", "A", "n", "n">>,
                       !.new_student_grade = "5", !.student_identifier = ident,
                       !.student_key = key, !.body = b] :
        ident \in SubmittedIdentifiers \ {"student-x"}, key \in SubmittedKeys,
        b \in Bodies}
    \cup
    {[BlankForm EXCEPT !.teacher_id = "T1", !.student_mode = "existing", !.body = b] :
        b \in Bodies}
    \cup
    {[BlankForm EXCEPT !.teacher_id = "T1", !.student_mode = "new",
                       !.new_student_name = <<" ">>, !.body = b] : b \in Bodies}
    \cup
    {[BlankForm EXCEPT !.teacher_id = "T2", !.student_mode = "existing",
                       !.student_id = AnnId, !.body = b] : b \in Bodies}
    \cup
    {[BlankForm EXCEPT !.teacher_id = "T2", !.student_mode = "new",
                       !.new_student_name = Ann, !.new_student_grade = "5",
                       !.body = b] : b \in Bodies}

BlankLocals ==
    [resolved_student |-> NoStudent, student_identifier |-> "", student_name |-> <<>>,
     student_key |-> "", payload |-> None, folder_id |-> "", existing |-> None,
     history |-> EmptyHistory, document_meta |-> None,
     guardian_notifications |-> <<>>, notify_error |-> "none", outcome |-> NoOutcome,
     existing_folder_id |-> "",  \* the cached id handed to ensure_student_folder
     appends |-> 0]              \* the append_history calls this request completed

\* build_form_payload, with the lesson fields of the form as one value
build_form_payload(f, student_name, student_grade) ==
    [teacher_id |-> f.teacher_id, student_name |-> student_name,
     lesson |-> f.body, student_grade |-> student_grade]

\* the request ends with this status: a rendered page, or an exception that
\* leaves submit(); l is the thread's locals at that point
Finish(t, l, status, stage) ==
    /\ pc' = [pc EXCEPT ![t] = "done"]
    /\ loc' = [loc EXCEPT ![t] = [l EXCEPT !.outcome = [status |-> status, stage |-> stage]]]

(***************************************************************************)
(* submit(), lines 997-1066: validation, the student key, the payload,     *)
(* rendering and the credential check. One read of the students table.     *)
(***************************************************************************)
\* new_student_name after .strip()
NewStudentName(f) == StripChars(f.new_student_name, WhiteChars)

\* whether submit() gets past its two validation returns
FormIsValid(f, table) ==
    IF f.student_mode = "existing"
    THEN find_student(table, f.student_id) # None
    ELSE NewStudentName(f) # <<>>

\* student_identifier, for a valid form
StudentIdentifier(f, table) ==
    IF f.student_mode = "existing"
    THEN IF f.student_identifier # "" /\ f.student_identifier # f.student_id
         THEN f.student_identifier
         ELSE find_student(table, f.student_id).id
    ELSE IF f.student_identifier # ""
         THEN f.student_identifier
         ELSE new_student_id(NewStudentName(f), DOMAIN table)

\* resolved_student, for a valid form
ResolvedStudent(f, table) ==
    IF f.student_mode = "existing"
    THEN find_student(table, f.student_id)
    ELSE [id |-> StudentIdentifier(f, table), name |-> NewStudentName(f),
          grade |-> f.new_student_grade, memo |-> f.new_student_memo,
          driveFolderId |-> ""]

\* student_key, for a valid form
StudentKey(f, table) ==
    IF f.student_key # ""
    THEN f.student_key
    ELSE build_student_key(f.teacher_id, StudentIdentifier(f, table))

\* the locals of submit() when it reaches the try block
LocalsAfterBegin(f, table) ==
    [BlankLocals EXCEPT
        !.resolved_student = ResolvedStudent(f, table),
        !.student_identifier = StudentIdentifier(f, table),
        !.student_name = ResolvedStudent(f, table).name,
        !.student_key = StudentKey(f, table),
        !.existing_folder_id = ResolvedStudent(f, table).driveFolderId,
        !.payload = build_form_payload(f, ResolvedStudent(f, table).name,
                                       ResolvedStudent(f, table).grade)]

SubmitBegin(t, f) ==
    /\ pc[t] = "idle"
    /\ form' = [form EXCEPT ![t] = f]
    /\ IF ~FormIsValid(f, students)
       THEN Finish(t, BlankLocals, 400, "validate")
       ELSE \/ \* read_template_text raises FileNotFoundError, outside the try
               Finish(t, LocalsAfterBegin(f, students), 500, "render")
            \/ \* require_user_credentials raises, inside the try
               Finish(t, LocalsAfterBegin(f, students), 500, "credentials")
            \/ /\ pc' = [pc EXCEPT ![t] = "ensure_folder"]
               /\ loc' = [loc EXCEPT ![t] = LocalsAfterBegin(f, students)]
    /\ UNCHANGED <<students, draft_files, history_files, history_lock, remoteVars,
                   clock, calls, clientVars, appended>>

(***************************************************************************)
(* submit(), lines 1067-1081: the folder and the document. Each Drive or   *)
(* Docs call is one step and may raise; the except clause ends the request *)
(* with status 500.                                                        *)
(***************************************************************************)
\* FIXED_DRIVE_PARENT_ID
DriveParent == "parent-0"

\* a Drive folder, as far as the query of _find_folder_by_name looks at it
Folder(id, name, parent, trashed) ==
    [id |-> id, name |-> name, parent |-> parent, trashed |-> trashed]

\* MatchingFolders without the "trashed = false" part of the query
MatchingFolders_IgnoresTrash(name) ==
    {fd \in drive : fd.name = name /\ fd.parent = DriveParent}

\* the folders _find_folder_by_name's query matches: a folder, not trashed, with
\* this name, with the parent among its parents
MatchingFolders(name) ==
    {fd \in drive : ~fd.trashed /\ fd.name = name /\ fd.parent = DriveParent}

\* the id Drive gives the folder thread t creates
NewFolderId(t) == "folder-" \o t

NewDocId(t) == "doc-" \o t

\* EnsureFolder without the early return on a cached id: the folder is always
\* looked up by name
EnsureFolder_AlwaysFinds(t) ==
    /\ pc[t] = "ensure_folder"
    /\ calls' = [calls EXCEPT ![t].find = @ + 1]
    /\ \/ Finish(t, loc[t], 500, "folder")
       \/ \E fd \in MatchingFolders(loc[t].student_name) :
              /\ loc' = [loc EXCEPT ![t].folder_id = fd.id]
              /\ pc' = [pc EXCEPT ![t] = "create_document"]
       \/ /\ MatchingFolders(loc[t].student_name) = {}
          /\ pc' = [pc EXCEPT ![t] = "create_folder"]
          /\ UNCHANGED loc
    /\ UNCHANGED <<students, draft_files, history_files, history_lock, remoteVars,
                   clock, form, clientVars, appended>>

\* ensure_student_folder up to and including _find_folder_by_name
EnsureFolder(t) ==
    /\ pc[t] = "ensure_folder"
    /\ IF loc[t].existing_folder_id # ""
       THEN /\ loc' = [loc EXCEPT ![t].folder_id = loc[t].existing_folder_id]
            /\ pc' = [pc EXCEPT ![t] = "create_document"]
            /\ UNCHANGED calls
       ELSE /\ calls' = [calls EXCEPT ![t].find = @ + 1]
            /\ \/ \* files().list raises
                  Finish(t, loc[t], 500, "folder")
               \/ \* the first folder the query returns: Drive fixes no order
                  \E fd \in MatchingFolders(loc[t].student_name) :
                      /\ loc' = [loc EXCEPT ![t].folder_id = fd.id]
                      /\ pc' = [pc EXCEPT ![t] = "create_document"]
               \/ /\ MatchingFolders(loc[t].student_name) = {}
                  /\ pc' = [pc EXCEPT ![t] = "create_folder"]
                  /\ UNCHANGED loc
    /\ UNCHANGED <<students, draft_files, history_files, history_lock, remoteVars,
                   clock, form, clientVars, appended>>

\* CreateFolder storing the new folder's id in the student's row at once, before
\* the document exists
CreateFolder_CachesAtOnce(t) ==
    /\ pc[t] = "create_folder"
    /\ calls' = [calls EXCEPT ![t].create = @ + 1]
    /\ \/ /\ Finish(t, loc[t], 500, "folder")
          /\ UNCHANGED <<drive, students>>
       \/ /\ drive' = drive \cup
                        {Folder(NewFolderId(t), loc[t].student_name, DriveParent, FALSE)}
          /\ students' =
                (loc[t].resolved_student.id :>
                    NextPayload([loc[t].resolved_student EXCEPT
                                    !.driveFolderId = NewFolderId(t)],
                                SelectStudent(students, loc[t].resolved_student.id)))
                @@ students
          /\ loc' = [loc EXCEPT ![t].folder_id = NewFolderId(t)]
          /\ pc' = [pc EXCEPT ![t] = "create_document"]
    /\ UNCHANGED <<draft_files, history_files, history_lock, docs,
                   clock, form, clientVars, appended>>

\* CreateFolder that looks again and takes a folder of that name that is there by
\* now
CreateFolder_ReusesExisting(t) ==
    /\ pc[t] = "create_folder"
    /\ calls' = [calls EXCEPT ![t].create = @ + 1]
    /\ \/ /\ Finish(t, loc[t], 500, "folder")
          /\ UNCHANGED drive
       \/ /\ MatchingFolders(loc[t].student_name) = {}
          /\ drive' = drive \cup
                        {Folder(NewFolderId(t), loc[t].student_name, DriveParent, FALSE)}
          /\ loc' = [loc EXCEPT ![t].folder_id = NewFolderId(t)]
          /\ pc' = [pc EXCEPT ![t] = "create_document"]
       \/ /\ \E fd \in MatchingFolders(loc[t].student_name) :
                 loc' = [loc EXCEPT ![t].folder_id = fd.id]
          /\ pc' = [pc EXCEPT ![t] = "create_document"]
          /\ UNCHANGED drive
    /\ UNCHANGED <<students, draft_files, history_files, history_lock, docs,
                   clock, form, clientVars, appended>>

\* ensure_student_folder from files().create on
CreateFolder(t) ==
    /\ pc[t] = "create_folder"
    /\ calls' = [calls EXCEPT ![t].create = @ + 1]
    /\ \/ /\ Finish(t, loc[t], 500, "folder")
          /\ UNCHANGED drive
       \/ /\ drive' = drive \cup
                        {Folder(NewFolderId(t), loc[t].student_name, DriveParent, FALSE)}
          /\ loc' = [loc EXCEPT ![t].folder_id = NewFolderId(t)]
          /\ pc' = [pc EXCEPT ![t] = "create_document"]
    /\ UNCHANGED <<students, draft_files, history_files, history_lock, docs,
                   clock, form, clientVars, appended>>

\* CreateDocument with delete_draft moved up: the draft goes as soon as the document
\* is there, before the student record and the history
CreateDocument_DeletesDraft(t) ==
    /\ pc[t] = "create_document"
    /\ \/ /\ Finish(t, loc[t], 500, "document")
          /\ \/ UNCHANGED docs
             \/ docs' = docs \cup {[id |-> NewDocId(t), folder |-> "root"]}
             \/ docs' = docs \cup {[id |-> NewDocId(t), folder |-> loc[t].folder_id]}
       \/ /\ docs' = docs \cup {[id |-> NewDocId(t), folder |-> loc[t].folder_id]}
          /\ loc' = [loc EXCEPT ![t].document_meta = [id |-> NewDocId(t)]]
          /\ pc' = [pc EXCEPT ![t] = "upsert_select"]
    /\ draft_files' = IF pc'[t] = "upsert_select"
                      THEN Unlink(draft_files, DraftPath(loc[t].student_key))
                      ELSE draft_files
    /\ UNCHANGED <<students, history_files, history_lock, drive,
                   clock, form, calls, clientVars, appended>>

\* create_document: documents().create, batchUpdate, files().update into the folder,
\* files().get; a document created before the failing call stays where it is
CreateDocument(t) ==
    /\ pc[t] = "create_document"
    /\ \/ /\ Finish(t, loc[t], 500, "document")
          /\ \/ UNCHANGED docs
             \/ docs' = docs \cup {[id |-> NewDocId(t), folder |-> "root"]}
             \/ docs' = docs \cup {[id |-> NewDocId(t), folder |-> loc[t].folder_id]}
       \/ /\ docs' = docs \cup {[id |-> NewDocId(t), folder |-> loc[t].folder_id]}
          /\ loc' = [loc EXCEPT ![t].document_meta = [id |-> NewDocId(t)]]
          /\ pc' = [pc EXCEPT ![t] = "upsert_select"]
    /\ UNCHANGED <<students, draft_files, history_files, history_lock, drive,
                   clock, form, calls, clientVars, appended>>

(***************************************************************************)
(* submit(), lines 1083-1087: the persisted state.                         *)
(***************************************************************************)
\* UpsertSelect without line 1083: the resolved folder id is not put into the
\* student before the upsert
UpsertSelect_DropsFolderId(t) ==
    /\ pc[t] = "upsert_select"
    /\ loc' = [loc EXCEPT
                 ![t].existing = SelectStudent(students, loc[t].resolved_student.id)]
    /\ pc' = [pc EXCEPT ![t] = "upsert_write"]
    /\ UNCHANGED <<students, draft_files, history_files, history_lock, remoteVars,
                   clock, form, calls, clientVars, appended>>

\* line 1083 and the SELECT of upsert_student_record, which runs outside any
\* transaction: sqlite3 opens one only before the INSERT or UPDATE
UpsertSelect(t) ==
    /\ pc[t] = "upsert_select"
    /\ loc' = [loc EXCEPT
                 ![t].resolved_student.driveFolderId = loc[t].folder_id,
                 ![t].existing = SelectStudent(students, loc[t].resolved_student.id)]
    /\ pc' = [pc EXCEPT ![t] = "upsert_write"]
    /\ UNCHANGED <<students, draft_files, history_files, history_lock, remoteVars,
                   clock, form, calls, clientVars, appended>>

\* the UPDATE or INSERT of upsert_student_record and its commit; an INSERT of an id
\* that is in the table by now raises sqlite3.IntegrityError, which nothing catches
UpsertWrite(t) ==
    /\ pc[t] = "upsert_write"
    /\ LET student == loc[t].resolved_student
           row     == NextPayload(student, loc[t].existing)
       IN  IF loc[t].existing # None
           THEN /\ students' = [students EXCEPT ![student.id] = row]
                /\ pc' = [pc EXCEPT ![t] = "history_acquire"]
                /\ UNCHANGED loc
           ELSE IF student.id \in DOMAIN students
           THEN /\ Finish(t, loc[t], 500, "persist")
                /\ UNCHANGED students
           ELSE /\ students' = (student.id :> row) @@ students
                /\ pc' = [pc EXCEPT ![t] = "history_acquire"]
                /\ UNCHANGED loc
    /\ UNCHANGED <<draft_files, history_files, history_lock, remoteVars,
                   clock, form, calls, clientVars, appended>>

\* the ghost log of append_history calls, with one more call for this key
Logged(log, student_key, entry) ==
    (student_key :> Append(IF student_key \in DOMAIN log THEN log[student_key] ELSE <<>>,
                           entry)) @@ log

\* HistoryAcquire that does not wait for the lock
HistoryAcquire_NoLock(t) ==
    /\ pc[t] = "history_acquire"
    /\ history_lock' = t
    /\ pc' = [pc EXCEPT ![t] = "history_load"]
    /\ UNCHANGED <<students, draft_files, history_files, remoteVars, clock, form, loc,
                   calls, clientVars, appended>>

\* append_history: "with history_lock:" entered
HistoryAcquire(t) ==
    /\ pc[t] = "history_acquire"
    /\ history_lock = NoThread
    /\ history_lock' = t
    /\ pc' = [pc EXCEPT ![t] = "history_load"]
    /\ UNCHANGED <<students, draft_files, history_files, remoteVars, clock, form, loc,
                   calls, clientVars, appended>>

\* append_history: load_json of the key's log
HistoryLoad(t) ==
    /\ pc[t] = "history_load"
    /\ loc' = [loc EXCEPT ![t].history =
                 load_json(history_files, HistoryPath(loc[t].student_key), EmptyHistory)]
    /\ pc' = [pc EXCEPT ![t] = "history_save"]
    /\ UNCHANGED <<students, draft_files, history_files, history_lock, remoteVars, clock,
                   form, calls, clientVars, appended>>

\* append_history: the entry appended, the list cut to its last 20, save_json, and
\* the lock released on leaving the with block. No other code writes or reads the
\* log while the lock is held, so the two halves of write_text are one step here.
HistorySave(t) ==
    /\ pc[t] = "history_save"
    /\ clock' = clock + 1
    /\ history_files' =
           save_json(history_files, HistoryPath(loc[t].student_key),
                     AppendEntry(loc[t].history, loc[t].payload, clock + 1))
    /\ appended' = Logged(appended, loc[t].student_key,
                          [payload |-> loc[t].payload, savedAt |-> clock + 1])
    /\ history_lock' = NoThread
    /\ loc' = [loc EXCEPT ![t].appends = @ + 1]
    /\ pc' = [pc EXCEPT ![t] = "delete_draft"]
    /\ UNCHANGED <<students, draft_files, remoteVars, form, calls, clientVars>>

\* delete_draft(student_key), line 1087
DeleteDraft(t) ==
    /\ pc[t] = "delete_draft"
    /\ draft_files' = Unlink(draft_files, DraftPath(loc[t].student_key))
    /\ pc' = [pc EXCEPT ![t] = "notify"]
    /\ UNCHANGED <<students, history_files, history_lock, remoteVars, clock, form, loc,
                   calls, clientVars, appended>>

(***************************************************************************)
(* submit(), lines 1089-1118: notify_guardians inside try / except         *)
(* Exception, then the result page. The guardians table, the Drive         *)
(* permission call and the Gmail call are the environment's: what they     *)
(* answer is drawn here.                                                   *)
(***************************************************************************)
\* what notify_guardians meets, and what submit() holds as guardian_notifications after
\* it: error names the call that raised, list the statuses collected
NotifyCases ==
    {[error |-> "none",        list |-> <<>>],           \* no guardian linked
     [error |-> "none",        list |-> <<"skipped">>],  \* guardian without email
     [error |-> "none",        list |-> <<"sent">>],
     [error |-> "share_http",  list |-> <<"sent">>],     \* HttpError, logged inside
                                                         \* share_document_with_guardian
     [error |-> "share_other", list |-> <<"failed">>],   \* caught at line 1149
     [error |-> "send_http",   list |-> <<"failed">>],   \* caught at line 1167
     [error |-> "send_other",  list |-> <<>>],           \* leaves notify_guardians,
                                                         \* caught at line 1098
     [error |-> "guardians_db", list |-> <<>>]}          \* find_guardians_for_student
                                                         \* raises, caught at line 1098

\* NotifyGuardians without the try / except of lines 1090-1099: an exception that
\* leaves notify_guardians ends the request with status 500
NotifyGuardians_Uncaught(t) ==
    /\ pc[t] = "notify"
    /\ \E c \in NotifyCases :
           Finish(t, [loc[t] EXCEPT !.guardian_notifications = c.list,
                                    !.notify_error = c.error],
                  IF c.error \in {"send_other", "guardians_db"} THEN 500 ELSE 200,
                  "complete")
    /\ UNCHANGED <<students, draft_files, history_files, history_lock, remoteVars, clock,
                   form, calls, clientVars, appended>>

NotifyGuardians(t) ==
    /\ pc[t] = "notify"
    /\ \E c \in NotifyCases :
           Finish(t, [loc[t] EXCEPT !.guardian_notifications = c.list,
                                    !.notify_error = c.error], 200, "complete")
    /\ UNCHANGED <<students, draft_files, history_files, history_lock, remoteVars, clock,
                   form, calls, clientVars, appended>>

(***************************************************************************)
(* Spec: request threads running submit() concurrently.                    *)
(***************************************************************************)
Clients == {"c1", "c2"}

NoCall == [name |-> "", key |-> "", payload |-> "", now |-> 0]

\* the last three calls a store client made, the latest in last
NoCalls == [last |-> NoCall, prev |-> NoCall, prev2 |-> NoCall]

AnnKey == build_student_key("T1", AnnId)

AnnRow(folder_id) == [name |-> Ann, grade |-> "5", memo |-> "", drive_folder_id |-> folder_id]

\* nothing in a directory
NoFiles == [q \in {} |-> Truncated]

InitClients ==
    /\ client_pc = [c \in Clients |-> "ready"]
    /\ client_op = [c \in Clients |-> NoCalls]
    /\ client_ret = [c \in Clients |-> None]

InitThreads ==
    /\ pc = [t \in Threads |-> "idle"]
    /\ form = [t \in Threads |-> BlankForm]
    /\ loc = [t \in Threads |-> BlankLocals]
    /\ calls = [t \in Threads |-> [find |-> 0, create |-> 0]]

\* the seeded student, with or without a cached folder; her Drive folder, there or
\* not; a draft saved for her by teacher T1, or none; no history yet
Init ==
    /\ students \in {AnnId :> AnnRow(fid) : fid \in {"", SeedFolder}}
    /\ drive \in SUBSET {Folder(SeedFolder, Ann, DriveParent, FALSE)}
    /\ students[AnnId].drive_folder_id = SeedFolder => drive # {}
    /\ draft_files \in {NoFiles,
                         DraftPath(AnnKey) :> Complete(DraftContent(AnnKey, "draft", 0))}
    /\ history_files = NoFiles
    /\ appended = NoFiles
    /\ history_lock = NoThread
    /\ docs = {}
    /\ clock = 0
    /\ InitThreads
    /\ InitClients

Next ==
    \E t \in Threads :
        \/ \E f \in SubmitForms : SubmitBegin(t, f)
        \/ EnsureFolder(t)
        \/ CreateFolder(t)
        \/ CreateDocument(t)
        \/ UpsertSelect(t)
        \/ UpsertWrite(t)
        \/ HistoryAcquire(t)
        \/ HistoryLoad(t)
        \/ HistorySave(t)
        \/ DeleteDraft(t)
        \/ NotifyGuardians(t)

Spec == Init /\ [][Next]_vars

(***************************************************************************)
(* Claims about submit().                                                  *)
(***************************************************************************)
\* the positions of submit() up to and including the document's creation
EarlyStages == {"idle", "ensure_folder", "create_folder", "create_document"}

\* thread t has taken a step
Stepped(t) == pc'[t] # pc[t]

\* the request of thread t created its document: folder resolution and
\* create_document both returned
DocumentCreated(t) == loc[t].document_meta # None

\* C1: every submission whose folder resolution and document creation both returned
\* without error has, when it ends, appended exactly one entry to the history log of
\* its student key and left no draft file for that key.
C1_SuccessAppendsOnceAndClearsDraft ==
    \A t \in Threads :
        (pc[t] = "done" /\ DocumentCreated(t)) =>
            /\ loc[t].appends = 1
            /\ ~Exists(draft_files, DraftPath(loc[t].student_key))

\* C2: a step of submit() at any stage up to and including the document's creation,
\* the failing one included, leaves every draft file, every history log and every
\* row of the students table as it was; so a submission that fails there has changed
\* none of them.
C2_EarlyFailureChangesNothing ==
    [][\A t \in Threads :
          (pc[t] \in EarlyStages /\ Stepped(t)) =>
              UNCHANGED <<students, draft_files, history_files>>]_vars

\* a submission failed at document creation, after its folder was created, while the
\* draft of its key is on disk
C2_Witness ==
    \E t \in Threads :
        /\ pc[t] = "done"
        /\ loc[t].outcome = [status |-> 500, stage |-> "document"]
        /\ calls[t].create = 1
        /\ Exists(draft_files, DraftPath(loc[t].student_key))

\* the entries of the history log of a key, as append_history would load them
HistoryEntries(student_key) ==
    load_json(history_files, HistoryPath(student_key), EmptyHistory).entries

\* C4: whatever the interleaving of the threads' append_history calls, the log of
\* each key holds the entries of all appends made to that key so far, in the order
\* the appends were made (the last 20 of them).
C4_NoAppendLost ==
    \A k \in DOMAIN appended : HistoryEntries(k) = LastN(appended[k], HistoryCap)

\* both threads have appended to one key, the second having waited for the lock
\* while the first was between its load and its save
C4_Witness ==
    \E t, u \in Threads :
        /\ t # u
        /\ loc[t].student_key = loc[u].student_key
        /\ pc[t] = "history_save"
        /\ pc[u] = "history_acquire"

\* C5: a submission whose student carries a non-empty cached folder id uses exactly
\* that id as its folder and makes no folder-find and no folder-create call.
C5_CachedFolderNoRemoteCall ==
    \A t \in Threads :
        loc[t].existing_folder_id # "" =>
            /\ calls[t] = [find |-> 0, create |-> 0]
            /\ loc[t].folder_id \in {"", loc[t].existing_folder_id}
            /\ pc[t] \notin {"ensure_folder", "create_folder"} =>
                   \/ loc[t].folder_id = loc[t].existing_folder_id
                   \/ loc[t].outcome.stage \in {"render", "credentials"}

C5_Witness ==
    \E t \in Threads :
        /\ pc[t] = "done"
        /\ loc[t].outcome.status = 200
        /\ loc[t].existing_folder_id = SeedFolder
        /\ loc[t].folder_id = SeedFolder

\* C6: once the stored drive_folder_id of a student is non-empty, no step of a
\* submission changes it, and no submission for that student makes a folder-find or
\* folder-create call.
C6_StoredFolderNeverChangesNorReresolved ==
    [][/\ \A s \in DOMAIN students :
            students[s].drive_folder_id # "" =>
                students'[s].drive_folder_id = students[s].drive_folder_id
       /\ \A t \in Threads :
            (calls'[t] # calls[t] /\ loc[t].resolved_student.id \in DOMAIN students) =>
                students[loc[t].resolved_student.id].drive_folder_id = ""]_vars

\* C7: the student key of a submission is build_student_key of the session's teacher
\* and the student's id, whatever else the form holds.
C7_KeyIsTeacherAndStudent ==
    \A t \in Threads :
        loc[t].student_key # "" =>
            loc[t].student_key =
                build_student_key(form[t].teacher_id, loc[t].resolved_student.id)

\* C10: the step that runs notify_guardians ends the request with the success page
\* and leaves the students table, the drafts and the history logs as they were,
\* whichever call of the notification failed.
C10_NotifyFailureKeepsSuccess ==
    [][\A t \in Threads :
          (pc[t] = "notify" /\ Stepped(t)) =>
              /\ pc'[t] = "done"
              /\ loc'[t].outcome.status = 200
              /\ loc'[t].appends = 1
              /\ UNCHANGED <<students, draft_files, history_files>>]_vars

\* a submission ended in success although the Gmail call raised an error that
\* notify_guardians does not catch; its history entry, its student row with the
\* folder, and the absence of its draft are in place
C10_Witness ==
    \E t \in Threads :
        /\ pc[t] = "done"
        /\ loc[t].notify_error = "send_other"
        /\ loc[t].outcome.status = 200
        /\ Len(HistoryEntries(loc[t].student_key)) >= 1
        /\ ~Exists(draft_files, DraftPath(loc[t].student_key))
        /\ students[loc[t].resolved_student.id].drive_folder_id = loc[t].folder_id

(***************************************************************************)
(* The draft and history stores called one call at a time (SpecStore,      *)
(* SpecHistory): api_save_draft, api_get_draft and submit() are their      *)
(* callers; a call is one step.                                            *)
(***************************************************************************)
StoreKeys == {AnnKey, build_student_key("T2", AnnId)}

DraftPayloads == {"p1", "p2"}

HistoryPayloads == {"h1"}

Call(name, student_key, payload, now) ==
    [name |-> name, key |-> student_key, payload |-> payload, now |-> now]

\* the window of a client's calls after one more call
Pushed(window, call) == [last |-> call, prev |-> window.last, prev2 |-> window.prev]

\* load_draft
load_draft(files, student_key) ==
    IF ~Exists(files, DraftPath(student_key))
    THEN None
    ELSE load_json(files, DraftPath(student_key), None)

\* load_last_submission
load_last_submission(files, student_key) ==
    LET history == load_json(files, HistoryPath(student_key), None)
    IN  IF history = None THEN None
        ELSE IF history.entries = <<>> THEN None
        ELSE history.entries[Len(history.entries)]

StoreDraftCall(c, student_key, payload) ==
    /\ client_pc[c] = "ready"
    /\ clock < MaxDraftStores
    /\ clock' = clock + 1
    /\ draft_files' = save_json(draft_files, DraftPath(student_key),
                                DraftContent(student_key, payload, clock + 1))
    /\ client_op' = [client_op EXCEPT
                       ![c] = Pushed(@, Call("store_draft", student_key, payload, clock + 1))]
    /\ client_ret' = [client_ret EXCEPT ![c] = None]
    /\ UNCHANGED <<students, history_files, history_lock, remoteVars, submitVars,
                   client_pc, appended>>

LoadDraftCall(c, student_key) ==
    /\ client_pc[c] = "ready"
    /\ client_op' = [client_op EXCEPT ![c] = Pushed(@, Call("load_draft", student_key, "", 0))]
    /\ client_ret' = [client_ret EXCEPT ![c] = load_draft(draft_files, student_key)]
    /\ UNCHANGED <<students, draft_files, history_files, history_lock, remoteVars, clock,
                   submitVars, client_pc, appended>>

DeleteDraftCall(c, student_key) ==
    /\ client_pc[c] = "ready"
    /\ draft_files' = Unlink(draft_files, DraftPath(student_key))
    /\ client_op' = [client_op EXCEPT
                       ![c] = Pushed(@, Call("delete_draft", student_key, "", 0))]
    /\ client_ret' = [client_ret EXCEPT ![c] = None]
    /\ UNCHANGED <<students, history_files, history_lock, remoteVars, clock, submitVars,
                   client_pc, appended>>

\* the seeded database, no request under way, empty store directories
InitStore ==
    /\ students = AnnId :> AnnRow("")
    /\ drive = {}
    /\ docs = {}
    /\ draft_files = NoFiles
    /\ history_files = NoFiles
    /\ appended = NoFiles
    /\ history_lock = NoThread
    /\ clock = 0
    /\ InitThreads
    /\ InitClients

NextStore ==
    \E k \in StoreKeys :
        \/ \E p \in DraftPayloads : StoreDraftCall("c1", k, p)
        \/ LoadDraftCall("c1", k)
        \/ DeleteDraftCall("c1", k)

SpecStore == InitStore /\ [][NextStore]_vars

\* how many append_history calls SpecHistory makes on a key
AppendBound(student_key) == IF student_key = AnnKey THEN MaxAppends ELSE MaxOtherAppends

AppendCount(student_key) ==
    IF student_key \in DOMAIN appended THEN Len(appended[student_key]) ELSE 0

\* append_history as one call: the lock is free before and after
AppendHistoryCall(c, student_key, payload) ==
    /\ client_pc[c] = "ready"
    /\ history_lock = NoThread
    /\ AppendCount(student_key) < AppendBound(student_key)
    /\ clock' = clock + 1
    /\ history_files' =
           save_json(history_files, HistoryPath(student_key),
                     AppendEntry(load_json(history_files, HistoryPath(student_key),
                                           EmptyHistory),
                                 payload, clock + 1))
    /\ appended' = Logged(appended, student_key,
                          [payload |-> payload, savedAt |-> clock + 1])
    /\ client_ret' = [client_ret EXCEPT ![c] = None]
    /\ UNCHANGED <<students, draft_files, history_lock, remoteVars, submitVars,
                   client_pc, client_op>>

LoadLastCall(c, student_key) ==
    /\ client_pc[c] = "ready"
    /\ client_ret' = [client_ret EXCEPT
                        ![c] = load_last_submission(history_files, student_key)]
    /\ UNCHANGED <<students, draft_files, history_files, history_lock, remoteVars, clock,
                   submitVars, client_pc, client_op, appended>>

NextHistory ==
    \E k \in StoreKeys :
        \/ \E p \in HistoryPayloads : AppendHistoryCall("c1", k, p)
        \/ LoadLastCall("c1", k)

SpecHistory == InitStore /\ [][NextHistory]_vars

(***************************************************************************)
(* The draft store under concurrent requests (SpecDraft): api_save_draft   *)
(* and api_get_draft run in two request threads, and nothing locks the     *)
(* draft directory. write_text opens the file with "w", which empties it,  *)
(* and writes the text afterwards; a reader can run in between.            *)
(***************************************************************************)
\* the window of a client whose running call is this one
Running(window, call) == [window EXCEPT !.last = call]

\* the file a client's running call works on
CallPath(c) == DraftPath(client_op[c].last.key)

\* store_draft up to open(path, "w"): the record is built and the file is emptied
StoreDraftOpen(c, student_key, payload) ==
    /\ client_pc[c] = "ready"
    /\ clock < MaxDraftStores
    /\ clock' = clock + 1
    /\ draft_files' = OpenForWrite(draft_files, DraftPath(student_key))
    /\ client_op' = [client_op EXCEPT
                       ![c] = Running(@, Call("store_draft", student_key, payload, clock + 1))]
    /\ client_ret' = [client_ret EXCEPT ![c] = None]
    /\ client_pc' = [client_pc EXCEPT ![c] = "store_write"]
    /\ UNCHANGED <<students, history_files, history_lock, remoteVars, submitVars, appended>>

\* write(): a first part of the text reaches the file
StoreDraftWritePart(c) ==
    /\ client_pc[c] = "store_write"
    /\ draft_files' = WritePart(draft_files, CallPath(c))
    /\ client_pc' = [client_pc EXCEPT ![c] = "store_flush"]
    /\ UNCHANGED <<students, history_files, history_lock, remoteVars, clock, submitVars,
                   client_op, client_ret, appended>>

\* write() and close(): the whole text is in the file
StoreDraftWriteEnd(c) ==
    /\ client_pc[c] \in {"store_write", "store_flush"}
    /\ draft_files' = WriteText(draft_files, CallPath(c),
                                DraftContent(client_op[c].last.key,
                                             client_op[c].last.payload,
                                             client_op[c].last.now))
    /\ client_pc' = [client_pc EXCEPT ![c] = "ready"]
    /\ UNCHANGED <<students, history_files, history_lock, remoteVars, clock, submitVars,
                   client_op, client_ret, appended>>

\* load_draft up to its path.exists()
LoadDraftExists(c, student_key) ==
    /\ client_pc[c] = "ready"
    /\ client_op' = [client_op EXCEPT ![c] = Running(@, Call("load_draft", student_key, "", 0))]
    /\ client_ret' = [client_ret EXCEPT ![c] = None]
    /\ client_pc' = [client_pc EXCEPT
                       ![c] = IF Exists(draft_files, DraftPath(student_key))
                              THEN "load_read" ELSE "ready"]
    /\ UNCHANGED <<students, draft_files, history_files, history_lock, remoteVars, clock,
                   submitVars, appended>>

\* load_json(path, None): read_text and json.loads
LoadDraftRead(c) ==
    /\ client_pc[c] = "load_read"
    /\ client_ret' = [client_ret EXCEPT ![c] = load_json(draft_files, CallPath(c), None)]
    /\ client_pc' = [client_pc EXCEPT ![c] = "ready"]
    /\ UNCHANGED <<students, draft_files, history_files, history_lock, remoteVars, clock,
                   submitVars, client_op, appended>>

\* a draft for Ann is on disk, written before any request of this run
SavedDraft == DraftContent(AnnKey, "p0", 0)

InitDraft ==
    /\ students = AnnId :> AnnRow("")
    /\ drive = {}
    /\ docs = {}
    /\ draft_files = DraftPath(AnnKey) :> Complete(SavedDraft)
    /\ history_files = NoFiles
    /\ appended = NoFiles
    /\ history_lock = NoThread
    /\ clock = 0
    /\ InitThreads
    /\ InitClients

NextDraft ==
    \E c \in Clients :
        \/ \E k \in StoreKeys, p \in DraftPayloads : StoreDraftOpen(c, k, p)
        \/ StoreDraftWritePart(c)
        \/ StoreDraftWriteEnd(c)
        \/ \E k \in StoreKeys : LoadDraftExists(c, k)
        \/ LoadDraftRead(c)

SpecDraft == InitDraft /\ [][NextDraft]_vars

\* C9: a load_draft of a key that had a record before any save returns a complete
\* record of that key: the saved one or one that a store_draft call carried; it never
\* returns None.
C9_LoadDuringStoreSeesARecord ==
    \A c \in Clients :
        (/\ client_pc[c] = "ready"
         /\ client_op[c].last.name = "load_draft"
         /\ client_op[c].last.key = AnnKey) =>
            /\ client_ret[c] # None
            /\ client_ret[c].studentKey = AnnKey

(***************************************************************************)
(* Claims about the stores, one call at a time.                            *)
(***************************************************************************)
Min(a, b) == IF a <= b THEN a ELSE b

\* C3: after n sequential append_history calls on a key, starting from no log, the
\* log holds min(n, 20) entries, and its i-th entry is the entry of append number
\* n - min(n, 20) + i: the last min(n, 20) appends, in append order. No log ever
\* holds more than 20 entries.
C3_LogIsLastTwentyAppends ==
    \A k \in StoreKeys :
        LET n       == AppendCount(k)
            entries == HistoryEntries(k)
        IN  /\ Len(entries) = Min(n, 20)
            /\ Len(entries) <= 20
            /\ \A i \in 1..Len(entries) : entries[i] = appended[k][n - Len(entries) + i]

\* 25 appends were made on one key: 20 entries are left and the five oldest are gone
C3_Witness ==
    /\ AppendCount(AnnKey) = 25
    /\ Len(HistoryEntries(AnnKey)) = 20
    /\ HistoryEntries(AnnKey)[1] = appended[AnnKey][6]
    /\ HistoryEntries(AnnKey)[20] = appended[AnnKey][25]

\* the draft records on disk that carry this student key
DraftRecordsOf(files, student_key) ==
    {q \in DOMAIN files :
        files[q].state = "complete" /\ files[q].data.studentKey = student_key}

\* C8: in every sequence of store_draft, load_draft and delete_draft calls
\*  - there is at most one draft record per student key after each call;
\*  - a load_draft(k) that follows a store_draft(k, p) returns one record, whose
\*    payload is p, whatever was stored for k before;
\*  - a delete_draft(k) when k has no record completes and leaves the store unchanged.
C8_DraftStoreIsSingleSlot ==
    [][\A k \in StoreKeys :
          /\ Cardinality(DraftRecordsOf(draft_files', k)) <= 1
          /\ \A c \in Clients :
                /\ (LoadDraftCall(c, k)
                        /\ client_op[c].last.name = "store_draft"
                        /\ client_op[c].last.key = k) =>
                       client_ret'[c] =
                           DraftContent(k, client_op[c].last.payload, client_op[c].last.now)
                /\ (~Exists(draft_files, DraftPath(k))
                        /\ client_op'[c] # client_op[c]
                        /\ client_op'[c].last.name = "delete_draft"
                        /\ client_op'[c].last.key = k) =>
                       /\ draft_files' = draft_files
                       /\ client_pc'[c] = "ready"]_vars

\* store_draft(k, p1), store_draft(k, p2), load_draft(k) were called in this order and
\* the load returned the record with p2
C8_Witness ==
    \E k \in StoreKeys :
        /\ client_op["c1"].prev2.name = "store_draft"
        /\ client_op["c1"].prev2.key = k
        /\ client_op["c1"].prev2.payload = "p1"
        /\ client_op["c1"].prev.name = "store_draft"
        /\ client_op["c1"].prev.key = k
        /\ client_op["c1"].prev.payload = "p2"
        /\ client_op["c1"].last.name = "load_draft"
        /\ client_op["c1"].last.key = k
        /\ client_ret["c1"] # None
        /\ client_ret["c1"].payload = "p2"

(***************************************************************************)
(* Further claims about submit() (Spec).                                   *)
(***************************************************************************)
\* request t ended in the success page
Succeeded(t) == pc[t] = "done" /\ loc[t].outcome.status = 200

\* C11: the upsert of a submission stores the folder id its document went to, a
\* non-empty id; a stored folder id never becomes empty again; an existing-student
\* submission that starts after a submission for the same student has succeeded is
\* handed a non-empty cached id; and a submission that was handed a non-empty cached
\* id makes no folder-find and no folder-create call in any of its steps.
C11_FolderCachedAfterFirstSuccess ==
    [][/\ \A t \in Threads :
             /\ (pc[t] = "upsert_write" /\ pc'[t] = "history_acquire") =>
                    /\ loc[t].folder_id # ""
                    /\ students'[loc[t].resolved_student.id].drive_folder_id
                           = loc[t].folder_id
             /\ \A s \in Threads \ {t} :
                    (/\ Succeeded(s)
                     /\ pc[t] = "idle" /\ pc'[t] # "idle"
                     /\ form'[t].student_mode = "existing"
                     /\ form'[t].student_id = loc[s].resolved_student.id) =>
                        /\ loc'[t].existing_folder_id # ""
                        /\ loc'[t].existing_folder_id
                               = students[form'[t].student_id].drive_folder_id
             /\ loc[t].existing_folder_id # "" =>
                    calls'[t] = [find |-> 0, create |-> 0]
       /\ \A id \in DOMAIN students :
             students[id].drive_folder_id # "" =>
                 /\ id \in DOMAIN students'
                 /\ students'[id].drive_folder_id # ""]_vars

\* a first submission for Ann, who had no cached folder, looked the folder up and
\* succeeded; a second, existing-student submission for her was handed the id the
\* first one stored and succeeded without a folder call
C11_Witness ==
    \E s, t \in Threads :
        /\ s # t
        /\ Succeeded(s) /\ Succeeded(t)
        /\ loc[s].existing_folder_id = ""
        /\ calls[s].find = 1
        /\ form[t].student_mode = "existing"
        /\ form[t].student_id = loc[s].resolved_student.id
        /\ loc[t].existing_folder_id = loc[s].folder_id
        /\ calls[t] = [find |-> 0, create |-> 0]
        /\ students[form[t].student_id].drive_folder_id = loc[s].folder_id

(***************************************************************************)
(* new_student_id called on tables of students (SpecIds): submit() in      *)
(* new-student mode calls it with the ids of load_students(), and the      *)
(* upsert's INSERT adds the returned id to the table.                      *)
(***************************************************************************)
MaxStudents == 6

\* names as typed into the form, before slugify
TypedNames ==
    {<<"A", "n", "n">>, <<" ", "a", "N", "n", " ">>, <<"A", "n", "n", "-", "1">>,
     <<"!", "?">>, <<>>}

\* ids the table can hold before the first call
StoredIds ==
    {"student-ann", "student-ann-1", "student-ann-2", "student-ann-1-1",
     "student-student"}

NewRow(name) == [name |-> name, grade |-> "", memo |-> "", drive_folder_id |-> ""]

\* existing_ids = {s["id"] for s in load_students()}; new_student_id(name, existing_ids)
NewStudentIdCall(c, name) ==
    /\ client_pc[c] = "ready"
    /\ client_ret' = [client_ret EXCEPT
                        ![c] = [name |-> name, existing |-> DOMAIN students,
                                id |-> new_student_id(name, DOMAIN students)]]
    /\ UNCHANGED <<students, draft_files, history_files, history_lock, remoteVars, clock,
                   submitVars, client_pc, client_op, appended>>

\* the INSERT of upsert_student_record for the id the last call returned
InsertStudentCall(c) ==
    /\ client_pc[c] = "ready"
    /\ client_ret[c] # None
    /\ client_ret[c].id \notin DOMAIN students
    /\ Cardinality(DOMAIN students) < MaxStudents
    /\ students' = (client_ret[c].id :> NewRow(client_ret[c].name)) @@ students
    /\ UNCHANGED <<draft_files, history_files, history_lock, remoteVars, clock,
                   submitVars, clientVars, appended>>

InitIds ==
    /\ \E ids \in SUBSET StoredIds : students = [id \in ids |-> NewRow(Ann)]
    /\ drive = {}
    /\ docs = {}
    /\ draft_files = NoFiles
    /\ history_files = NoFiles
    /\ appended = NoFiles
    /\ history_lock = NoThread
    /\ clock = 0
    /\ InitThreads
    /\ InitClients

NextIds ==
    \/ \E name \in TypedNames : NewStudentIdCall("c1", name)
    \/ InsertStudentCall("c1")

SpecIds == InitIds /\ [][NextIds]_vars

\* C12: the id a new_student_id(name, existing) call returned is not in existing,
\* and new_student_id(name, existing plus that id) is another id.
C12_NewIdIsFreshAndMovesOn ==
    client_ret["c1"] # None =>
        /\ client_ret["c1"].id \notin client_ret["c1"].existing
        /\ new_student_id(client_ret["c1"].name,
                          client_ret["c1"].existing \cup {client_ret["c1"].id})
               # client_ret["c1"].id

\* a call for a name whose ids are taken twice over: the
\* table holds the plain id and a suffixed id the function would have returned
\* without it, and the call returned a further id
C12_Witness ==
    /\ client_ret["c1"] # None
    /\ "student-ann" \in client_ret["c1"].existing
    /\ \E x \in client_ret["c1"].existing :
          /\ x # "student-ann"
          /\ new_student_id(client_ret["c1"].name, client_ret["c1"].existing \ {x}) = x
          /\ client_ret["c1"].id # x
          /\ client_ret["c1"].id \notin client_ret["c1"].existing

(***************************************************************************)
(* The order of the persisted-state steps of submit() (Spec).              *)
(***************************************************************************)
\* the step appends request t's history entry
AppendsHistory(t) == loc'[t].appends = loc[t].appends + 1

\* C13, as stated: when a submission appends its history entry, the draft of its
\* key has been deleted already.
C13_DraftDeletedBeforeAppend ==
    [][\A t \in Threads :
          AppendsHistory(t) => ~Exists(draft_files, DraftPath(loc[t].student_key))]_vars

\* C13, amended: the history entry is appended after the document was created, by a
\* step that leaves the drafts alone; a draft is deleted only by a submission that
\* has appended its entry and has not yet attempted the notification; and a
\* submission reaches the success page, past the notification, only with its entry
\* appended and the draft of its key gone (submissions save no drafts).
C13_AppendThenDeleteThenNotify ==
    [][/\ \A t \in Threads :
             /\ AppendsHistory(t) =>
                    /\ loc[t].document_meta # None
                    /\ draft_files' = draft_files
                    /\ loc'[t].outcome = NoOutcome
             /\ (pc[t] # "done" /\ pc'[t] = "done" /\ loc'[t].outcome.status = 200) =>
                    /\ loc[t].appends = 1
                    /\ ~Exists(draft_files, DraftPath(loc[t].student_key))
       /\ draft_files' # draft_files =>
             \E t \in Threads :
                 /\ pc'[t] # pc[t]
                 /\ loc[t].appends = 1
                 /\ loc[t].outcome = NoOutcome
                 /\ pc'[t] # "done"
                 /\ draft_files' = Unlink(draft_files, DraftPath(loc[t].student_key))]_vars

\* a submission has appended its entry to the log of Ann's key while her draft is
\* still on disk and the notification has not been attempted
C13_Witness ==
    \E t \in Threads :
        /\ pc[t] = "delete_draft"
        /\ loc[t].student_key = AnnKey
        /\ loc[t].appends = 1
        /\ HistoryEntries(AnnKey) # <<>>
        /\ Exists(draft_files, DraftPath(AnnKey))
        /\ loc[t].document_meta # None

(***************************************************************************)
(* ensure_student_folder against a Drive that also holds folders its query *)
(* must not match (SpecFolder): submit() up to the folder, in two request  *)
(* threads.                                                                *)
(***************************************************************************)
Bob == <<"B", "o", "b">>

\* folders in Drive before any request
SeedFolders ==
    {Folder(SeedFolder, Ann, DriveParent, FALSE),
     Folder("folder-trashed", Ann, DriveParent, TRUE),
     Folder("folder-elsewhere", Ann, "parent-1", FALSE),
     Folder("folder-bob", Bob, DriveParent, FALSE)}

InitFolder ==
    /\ students \in {AnnId :> AnnRow(fid) : fid \in {"", SeedFolder}}
    /\ drive \in SUBSET SeedFolders
    /\ students[AnnId].drive_folder_id = SeedFolder =>
           Folder(SeedFolder, Ann, DriveParent, FALSE) \in drive
    /\ draft_files = NoFiles
    /\ history_files = NoFiles
    /\ appended = NoFiles
    /\ history_lock = NoThread
    /\ docs = {}
    /\ clock = 0
    /\ InitThreads
    /\ InitClients

NextFolder ==
    \E t \in Threads :
        \/ \E f \in SubmitForms : SubmitBegin(t, f)
        \/ EnsureFolder(t)
        \/ CreateFolder(t)

SpecFolder == InitFolder /\ [][NextFolder]_vars

\* the folders of this name under the parent that are not in the trash
LiveFolders(folders, name) ==
    {fd \in folders : ~fd.trashed /\ fd.name = name /\ fd.parent = DriveParent}

\* C14: ensure_student_folder with an empty cached id
\*  - makes one find query and, while it runs, changes nothing in Drive;
\*  - when it goes on with a found folder, that folder is in Drive, not trashed, has
\*    the student's name and the parent, and no create call is made;
\*  - when it goes on to create, Drive held no such folder at the query;
\*  - the create call adds exactly one folder, with the student's name, under the
\*    parent, and its new id is the id returned.
C14_FindThenCreateOnce ==
    [][\A t \in Threads :
          /\ (pc[t] = "ensure_folder" /\ pc'[t] # "ensure_folder"
                  /\ loc[t].existing_folder_id = "") =>
                 /\ calls[t] = [find |-> 0, create |-> 0]
                 /\ calls'[t] = [find |-> 1, create |-> 0]
                 /\ drive' = drive
                 /\ pc'[t] = "create_document" =>
                        \E fd \in LiveFolders(drive, loc[t].student_name) :
                            loc'[t].folder_id = fd.id
                 /\ pc'[t] = "create_folder" =>
                        LiveFolders(drive, loc[t].student_name) = {}
          /\ (pc[t] = "create_folder" /\ pc'[t] = "create_document") =>
                 /\ calls[t] = [find |-> 1, create |-> 0]
                 /\ calls'[t] = [find |-> 1, create |-> 1]
                 /\ \A fd \in drive : fd.id # loc'[t].folder_id
                 /\ drive' = drive \cup
                        {Folder(loc'[t].folder_id, loc[t].student_name, DriveParent, FALSE)}
          /\ (pc[t] = "create_document" /\ loc[t].existing_folder_id = "") =>
                 calls[t].find = 1 /\ calls[t].create <= 1]_vars

\* a folder of the student's name lies in the trash and another under another parent;
\* the query returned none and the request created its folder
C14_Witness ==
    \E t \in Threads :
        /\ pc[t] = "create_document"
        /\ loc[t].student_name = Ann
        /\ calls[t] = [find |-> 1, create |-> 1]
        /\ Folder("folder-trashed", Ann, DriveParent, TRUE) \in drive
        /\ Folder("folder-elsewhere", Ann, "parent-1", FALSE) \in drive
        /\ Folder(loc[t].folder_id, Ann, DriveParent, FALSE) \in drive
        /\ Cardinality(LiveFolders(drive, Ann)) = 1

\* C15: nothing keeps a second request from creating the student's folder once more.
\* A create call that returns adds one more live folder of the student's name under
\* the parent, also when such a folder is there by then; and when two requests for
\* one student have each created a folder, Drive holds two live folders of that
\* name under the parent.
C15_BothRequestsCreateAFolder ==
    [][/\ \A t \in Threads :
             (pc[t] = "create_folder" /\ pc'[t] = "create_document") =>
                 Cardinality(LiveFolders(drive', loc[t].student_name))
                    = Cardinality(LiveFolders(drive, loc[t].student_name)) + 1
       /\ \A s, t \in Threads :
             (/\ s # t
              /\ calls'[s].create = 1 /\ pc'[s] = "create_document"
              /\ calls'[t].create = 1 /\ pc'[t] = "create_document"
              /\ loc'[s].student_name = loc'[t].student_name) =>
                 Cardinality(LiveFolders(drive', loc'[t].student_name)) >= 2]_vars

\* two existing-student submissions for Ann, who has no cached folder and no folder
\* in Drive: both queries returned none, both requests created a folder
C15_Witness ==
    /\ students[AnnId].drive_folder_id = ""
    /\ \A t \in Threads :
          /\ form[t].student_mode = "existing"
          /\ form[t].student_id = AnnId
          /\ loc[t].existing_folder_id = ""
          /\ calls[t] = [find |-> 1, create |-> 1]
          /\ pc[t] = "create_document"
          /\ Folder(loc[t].folder_id, Ann, DriveParent, FALSE) \in drive
    /\ loc["r1"].folder_id # loc["r2"].folder_id
    /\ Cardinality(LiveFolders(drive, Ann)) = 2

(***************************************************************************)
(* parse_markdown_blocks. A text is a sequence of characters; a block is a *)
(* record with its type and, unless it is an empty block, its text.        *)
(***************************************************************************)
\* the index of the first line break in text, 0 when there is none
RECURSIVE FirstBreak(_, _)
FirstBreak(text, i) ==
    IF i > Len(text) THEN 0
    ELSE IF text[i] = "\n" THEN i
    ELSE FirstBreak(text, i + 1)

\* str.splitlines(): a line break ends a line, and a text that ends with one has no
\* further, empty line
RECURSIVE SplitLines(_)
SplitLines(text) ==
    IF text = <<>> THEN <<>>
    ELSE LET k == FirstBreak(text, 1)
         IN  IF k = 0 THEN <<text>>
             ELSE <<SubSeq(text, 1, k - 1)>> \o SplitLines(SubSeq(text, k + 1, Len(text)))

\* "\n".join(lines)
RECURSIVE JoinLines(_)
JoinLines(lines) ==
    IF lines = <<>> THEN <<>>
    ELSE IF Len(lines) = 1 THEN lines[1]
    ELSE lines[1] \o <<"\n">> \o JoinLines(Tail(lines))

\* str.startswith(prefix)
StartsWith(s, prefix) == Len(s) >= Len(prefix) /\ SubSeq(s, 1, Len(prefix)) = prefix

\* s[n:]
DropFirst(s, n) == SubSeq(s, n + 1, Len(s))

\* the locals of parse_markdown_blocks before the first line
ParserStart == [blocks |-> <<>>, paragraph_buffer |-> <<>>, consecutive_empty |-> 0]

\* flush_paragraph()
flush_paragraph(st) ==
    IF st.paragraph_buffer # <<>>
    THEN LET paragraph_text == StripChars(JoinLines(st.paragraph_buffer), WhiteChars)
         IN  [blocks |-> IF paragraph_text # <<>>
                         THEN Append(st.blocks, [type |-> "paragraph", text |-> paragraph_text])
                         ELSE st.blocks,
              paragraph_buffer |-> <<>>,
              consecutive_empty |-> 0]
    ELSE st

\* HeadingOrBullet that leaves the empty counter as it is
HeadingOrBullet_KeepsCounter(st, type, text) ==
    [flush_paragraph(st) EXCEPT
        !.blocks = Append(@, [type |-> type, text |-> StripChars(text, WhiteChars)])]

\* the three branches that append a block with a text: flush, append, reset
HeadingOrBullet(st, type, text) ==
    [flush_paragraph(st) EXCEPT
        !.blocks = Append(@, [type |-> type, text |-> StripChars(text, WhiteChars)]),
        !.consecutive_empty = 0]

\* BlankLine without the test of the empty counter
BlankLine_IgnoresCounter(st) ==
    [flush_paragraph(st) EXCEPT
        !.blocks = Append(@, [type |-> "empty"]),
        !.consecutive_empty = @ + 1]

\* the branch of a line that is empty once stripped
BlankLine(st) ==
    [flush_paragraph(st) EXCEPT
        !.blocks = IF flush_paragraph(st).consecutive_empty = 0
                   THEN Append(@, [type |-> "empty"])
                   ELSE @,
        !.consecutive_empty = @ + 1]

\* the body of the for loop, for one line
ParseLine(st, raw_line) ==
    LET line     == StripRight(raw_line, WhiteChars)
        stripped == StripChars(line, WhiteChars)
    IN  IF StartsWith(stripped, <<"#", "#", " ">>)
        THEN HeadingOrBullet(st, "heading2", DropFirst(stripped, 3))
        ELSE IF StartsWith(stripped, <<"#", " ">>)
        THEN HeadingOrBullet(st, "heading1", DropFirst(stripped, 2))
        ELSE IF StartsWith(stripped, <<"-", " ">>)
        THEN HeadingOrBullet(st, "bullet", DropFirst(stripped, 2))
        ELSE IF stripped = <<>>
        THEN BlankLine(st)
        ELSE [st EXCEPT !.paragraph_buffer = Append(@, line), !.consecutive_empty = 0]

\* the for loop over the lines that are left
RECURSIVE ParseLines(_, _)
ParseLines(st, lines) ==
    IF lines = <<>> THEN st ELSE ParseLines(ParseLine(st, Head(lines)), Tail(lines))

parse_markdown_blocks(text) ==
    flush_paragraph(ParseLines(ParserStart, SplitLines(text))).blocks

(***************************************************************************)
(* build_doc_requests_from_blocks. A request is a record with the name of  *)
(* the Docs request as its kind.                                           *)
(***************************************************************************)
\* block.get("text", "")
BlockText(block) == IF "text" \in DOMAIN block THEN block.text ELSE <<>>

\* insert_text
InsertTextOf(block) ==
    IF block.type = "empty" THEN <<"\n">> ELSE BlockText(block) \o <<"\n">>

\* EndIndex that counts the text of the block and not the line break after it
EndIndex_WithoutLineBreak(index, insert_text) == index + Len(insert_text) - 1

\* end = index + len(insert_text)
EndIndex(index, insert_text) == index + Len(insert_text)

\* StyleRequests that also sets a named style on paragraphs
StyleRequests_StylesParagraphs(block_type, start, end) ==
    IF block_type = "heading1"
    THEN <<[kind |-> "updateParagraphStyle", startIndex |-> start, endIndex |-> end,
            namedStyleType |-> "HEADING_1"]>>
    ELSE IF block_type = "heading2"
    THEN <<[kind |-> "updateParagraphStyle", startIndex |-> start, endIndex |-> end,
            namedStyleType |-> "HEADING_2"]>>
    ELSE IF block_type = "bullet"
    THEN <<[kind |-> "createParagraphBullets", startIndex |-> start, endIndex |-> end,
            bulletPreset |-> "BULLET_DISC_CIRCLE_SQUARE"]>>
    ELSE IF block_type = "paragraph"
    THEN <<[kind |-> "updateParagraphStyle", startIndex |-> start, endIndex |-> end,
            namedStyleType |-> "NORMAL_TEXT"]>>
    ELSE <<>>

\* the requests appended after the insertText of a block
StyleRequests(block_type, start, end) ==
    IF block_type = "heading1"
    THEN <<[kind |-> "updateParagraphStyle", startIndex |-> start, endIndex |-> end,
            namedStyleType |-> "HEADING_1"]>>
    ELSE IF block_type = "heading2"
    THEN <<[kind |-> "updateParagraphStyle", startIndex |-> start, endIndex |-> end,
            namedStyleType |-> "HEADING_2"]>>
    ELSE IF block_type = "bullet"
    THEN <<[kind |-> "createParagraphBullets", startIndex |-> start, endIndex |-> end,
            bulletPreset |-> "BULLET_DISC_CIRCLE_SQUARE"]>>
    ELSE <<>>

\* the for loop over the blocks that are left, entered with index and requests
RECURSIVE BuildRequests(_, _, _)
BuildRequests(blocks, index, requests) ==
    IF blocks = <<>> THEN requests
    ELSE LET block       == Head(blocks)
             insert_text == InsertTextOf(block)
             start       == index
             end         == EndIndex(index, insert_text)
         IN  BuildRequests(Tail(blocks), end,
                           requests
                             \o <<[kind |-> "insertText", index |-> index,
                                   text |-> insert_text]>>
                             \o StyleRequests(block.type, start, end))

build_doc_requests_from_blocks(blocks) == BuildRequests(blocks, 1, <<>>)

(***************************************************************************)
(* The two functions applied to rendered texts (SpecBlocks):               *)
(* render_document_blocks parses the text the template renders, and        *)
(* create_document compiles the blocks into the requests of one            *)
(* batchUpdate.                                                            *)
(***************************************************************************)
MaxLines == 5

\* lines a rendered text is made of
TextLines ==
    {<<"#", "#", " ", "a">>, <<" ", "#", " ", "c", " ">>, <<"-", " ", "a">>,
     <<>>, <<" ", " ">>,
     <<"a">>, <<" ", "b", " ">>}

\* the lines rendered so far for client c
RenderedLines(c) == IF client_ret[c] = None THEN <<>> ELSE client_ret[c].lines

\* template.render(**payload): one more line of the rendered text
RenderLine(c, line) ==
    /\ client_pc[c] = "ready"
    /\ Len(RenderedLines(c)) < MaxLines
    /\ client_ret' = [client_ret EXCEPT
                        ![c] = [lines |-> Append(RenderedLines(c), line),
                                text |-> <<>>, blocks |-> <<>>, requests |-> <<>>]]
    /\ UNCHANGED <<students, draft_files, history_files, history_lock, remoteVars, clock,
                   submitVars, client_pc, client_op, appended>>

\* render_document_blocks: parse_markdown_blocks(rendered), the rendered text being
\* the lines joined by line breaks
ParseCall(c) ==
    /\ client_pc[c] = "ready"
    /\ client_ret' = [client_ret EXCEPT
                        ![c] = [lines |-> RenderedLines(c),
                                text |-> JoinLines(RenderedLines(c)),
                                blocks |-> parse_markdown_blocks(JoinLines(RenderedLines(c))),
                                requests |-> <<>>]]
    /\ client_pc' = [client_pc EXCEPT ![c] = "parsed"]
    /\ UNCHANGED <<students, draft_files, history_files, history_lock, remoteVars, clock,
                   submitVars, client_op, appended>>

\* create_document: requests = build_doc_requests_from_blocks(blocks)
BuildCall(c) ==
    /\ client_pc[c] = "parsed"
    /\ client_ret' = [client_ret EXCEPT
                        ![c].requests = build_doc_requests_from_blocks(client_ret[c].blocks)]
    /\ client_pc' = [client_pc EXCEPT ![c] = "built"]
    /\ UNCHANGED <<students, draft_files, history_files, history_lock, remoteVars, clock,
                   submitVars, client_op, appended>>

NextBlocks ==
    \/ \E line \in TextLines : RenderLine("c1", line)
    \/ ParseCall("c1")
    \/ BuildCall("c1")

SpecBlocks == InitStore /\ [][NextBlocks]_vars

(***************************************************************************)
(* Claims about parse_markdown_blocks (SpecBlocks).                        *)
(***************************************************************************)
\* client c1 has parsed its text
Parsed == client_pc["c1"] \in {"parsed", "built"}

Trimmed(line) == StripChars(line, WhiteChars)

\* the class of a line, by the precedence of the claim
LineKind(line) ==
    IF StartsWith(Trimmed(line), <<"#", "#", " ">>) THEN "heading2"
    ELSE IF StartsWith(Trimmed(line), <<"#", " ">>) THEN "heading1"
    ELSE IF StartsWith(Trimmed(line), <<"-", " ">>) THEN "bullet"
    ELSE IF Trimmed(line) = <<>> THEN "blank"
    ELSE "paragraph"

\* C16: the blocks parse_markdown_blocks returns never hold two empty blocks side by
\* side, and a text whose lines are all blank yields at most one block, an empty one.
C16_NoTwoEmptyBlocksSideBySide ==
    Parsed =>
        LET blocks == client_ret["c1"].blocks
            lines  == SplitLines(client_ret["c1"].text)
        IN  /\ \A i \in 1..(Len(blocks) - 1) :
                  ~(blocks[i].type = "empty" /\ blocks[i + 1].type = "empty")
            /\ (\A i \in 1..Len(lines) : LineKind(lines[i]) = "blank") =>
                  /\ Len(blocks) <= 1
                  /\ \A i \in 1..Len(blocks) : blocks[i].type = "empty"

\* a text with three blank lines in a row between a heading and a paragraph line was
\* parsed: one empty block stands between the two
C16_Witness ==
    /\ Parsed
    /\ client_ret["c1"].lines = <<<<"#", "#", " ", "a">>, <<>>, <<" ", " ">>, <<>>, <<"a">>>>
    /\ Len(client_ret["c1"].blocks) = 3
    /\ client_ret["c1"].blocks[2].type = "empty"

\* the first line of the run of paragraph lines that ends at line i
RECURSIVE RunStart(_, _)
RunStart(lines, i) ==
    IF i > 1 /\ LineKind(lines[i - 1]) = "paragraph" THEN RunStart(lines, i - 1) ELSE i

\* the blocks that line i of the text accounts for
BlocksOfLine(lines, i) ==
    LET kind == LineKind(lines[i])
    IN  IF kind = "heading2"
        THEN <<[type |-> "heading2", text |-> Trimmed(DropFirst(Trimmed(lines[i]), 3))]>>
        ELSE IF kind \in {"heading1", "bullet"}
        THEN <<[type |-> kind, text |-> Trimmed(DropFirst(Trimmed(lines[i]), 2))]>>
        ELSE IF kind = "blank"
        THEN IF i > 1 /\ LineKind(lines[i - 1]) = "blank"
             THEN <<>>
             ELSE <<[type |-> "empty"]>>
        ELSE IF i < Len(lines) /\ LineKind(lines[i + 1]) = "paragraph"
        THEN <<>>
        ELSE <<[type |-> "paragraph",
                text |-> Trimmed(JoinLines([j \in 1..(i - RunStart(lines, i) + 1) |->
                            StripRight(lines[RunStart(lines, i) + j - 1], WhiteChars)]))]>>

RECURSIVE BlocksUpTo(_, _)
BlocksUpTo(lines, i) ==
    IF i = 0 THEN <<>> ELSE BlocksUpTo(lines, i - 1) \o BlocksOfLine(lines, i)

\* C17: the blocks are, line after line in input order: for a "## " line a heading2,
\* for a "# " line a heading1, for a "- " line a bullet, each with the rest of the
\* line, trimmed; for a blank line an empty block unless the line before is blank
\* too (the empty counter is zero at the first line and after every line that is not
\* blank); for every maximal run of other lines one paragraph block, at the place of
\* the run, whose text is the run's lines, right-trimmed, joined by line breaks, and
\* trimmed. The class of a line is that of the trimmed line.
C17_BlocksFollowTheLines ==
    Parsed =>
        client_ret["c1"].blocks =
            BlocksUpTo(SplitLines(client_ret["c1"].text),
                       Len(SplitLines(client_ret["c1"].text)))

\* a heading, two blank lines and a run of two paragraph lines that ends the text
\* without a line break: heading2, one empty block, one paragraph of two lines
C17_Witness ==
    /\ Parsed
    /\ client_ret["c1"].text =
           <<"#", "#", " ", "a", "\n", "\n", " ", " ", "\n", "a", "\n", " ", "b", " ">>
    /\ client_ret["c1"].blocks =
           <<[type |-> "heading2", text |-> <<"a">>],
             [type |-> "empty"],
             [type |-> "paragraph", text |-> <<"a", "\n", " ", "b">>]>>

(***************************************************************************)
(* Claims about build_doc_requests_from_blocks (SpecBlocks).               *)
(***************************************************************************)
\* client c1 has compiled its blocks
Built == client_pc["c1"] = "built"

\* the insertText requests among the first n requests
RECURSIVE InsertsUpTo(_, _)
InsertsUpTo(requests, n) ==
    IF n = 0 THEN <<>>
    ELSE IF requests[n].kind = "insertText"
    THEN Append(InsertsUpTo(requests, n - 1), requests[n])
    ELSE InsertsUpTo(requests, n - 1)

\* the total length of the texts of the first n of these insertText requests
RECURSIVE InsertedLength(_, _)
InsertedLength(inserts, n) ==
    IF n = 0 THEN 0 ELSE InsertedLength(inserts, n - 1) + Len(inserts[n].text)

\* C18: there is one insertText per block; the first is at index 1, the k-th at
\* index 1 plus the total length of the k - 1 texts inserted before it, so the
\* indexes never decrease; and every other request has the range that starts at the
\* index of the last insertText before it and ends at that index plus the length of
\* that inserted text.
C18_CursorAndRangesFollowTheInserts ==
    Built =>
        LET requests == client_ret["c1"].requests
            blocks   == client_ret["c1"].blocks
            inserts  == InsertsUpTo(requests, Len(requests))
        IN  /\ Len(inserts) = Len(blocks)
            /\ \A k \in 1..Len(inserts) :
                  /\ inserts[k].index = 1 + InsertedLength(inserts, k - 1)
                  /\ k > 1 => inserts[k].index >= inserts[k - 1].index
            /\ \A i \in 1..Len(requests) :
                  requests[i].kind # "insertText" =>
                      LET before == InsertsUpTo(requests, i)
                      IN  /\ before # <<>>
                          /\ requests[i].startIndex = before[Len(before)].index
                          /\ requests[i].endIndex
                                 = requests[i].startIndex + Len(before[Len(before)].text)

\* heading2 "a", an empty block and a paragraph of two lines were compiled: the
\* inserts are at 1, 3 and 4, and the heading's style covers [1, 3)
C18_Witness ==
    /\ Built
    /\ client_ret["c1"].blocks =
           <<[type |-> "heading2", text |-> <<"a">>],
             [type |-> "empty"],
             [type |-> "paragraph", text |-> <<"a", "\n", " ", "b">>]>>
    /\ client_ret["c1"].requests =
           <<[kind |-> "insertText", index |-> 1, text |-> <<"a", "\n">>],
             [kind |-> "updateParagraphStyle", startIndex |-> 1, endIndex |-> 3,
              namedStyleType |-> "HEADING_2"],
             [kind |-> "insertText", index |-> 3, text |-> <<"\n">>],
             [kind |-> "insertText", index |-> 4,
              text |-> <<"a", "\n", " ", "b", "\n">>]>>

\* a request without its index or range
Operation(request) ==
    IF request.kind = "insertText"
    THEN [kind |-> "insertText", text |-> request.text]
    ELSE IF request.kind = "updateParagraphStyle"
    THEN [kind |-> "updateParagraphStyle", style |-> request.namedStyleType]
    ELSE [kind |-> request.kind, style |-> request.bulletPreset]

\* the operations the claim gives a block
OperationsOf(block) ==
    <<[kind |-> "insertText",
       text |-> IF block.type = "empty" THEN <<"\n">> ELSE block.text \o <<"\n">>]>>
    \o (IF block.type = "heading1"
        THEN <<[kind |-> "updateParagraphStyle", style |-> "HEADING_1"]>>
        ELSE IF block.type = "heading2"
        THEN <<[kind |-> "updateParagraphStyle", style |-> "HEADING_2"]>>
        ELSE IF block.type = "bullet"
        THEN <<[kind |-> "createParagraphBullets", style |-> "BULLET_DISC_CIRCLE_SQUARE"]>>
        ELSE <<>>)

RECURSIVE OperationsUpTo(_, _)
OperationsUpTo(blocks, n) ==
    IF n = 0 THEN <<>> ELSE OperationsUpTo(blocks, n - 1) \o OperationsOf(blocks[n])

\* C19: the requests are, block after block: one insertText of the block's text and a
\* line break (a lone line break for an empty block), followed at once by one
\* updateParagraphStyle HEADING_1 for a heading1, HEADING_2 for a heading2, one
\* createParagraphBullets for a bullet, and by nothing for a paragraph or an empty
\* block; no blocks give no requests.
C19_OneInsertAndStyleWhereDue ==
    Built =>
        LET requests == client_ret["c1"].requests
            blocks   == client_ret["c1"].blocks
        IN  /\ [i \in 1..Len(requests) |-> Operation(requests[i])]
                   = OperationsUpTo(blocks, Len(blocks))
            /\ blocks = <<>> => requests = <<>>

\* one block of each type was compiled: five inserts and three style requests
C19_Witness ==
    /\ Built
    /\ [i \in 1..Len(client_ret["c1"].blocks) |-> client_ret["c1"].blocks[i].type]
           = <<"heading2", "heading1", "bullet", "empty", "paragraph">>
    /\ [i \in 1..Len(client_ret["c1"].requests) |-> client_ret["c1"].requests[i].kind]
           = <<"insertText", "updateParagraphStyle", "insertText", "updateParagraphStyle",
               "insertText", "createParagraphBullets", "insertText", "insertText">>

(***************************************************************************)
(* New students in concurrent submissions (Spec).                          *)
(***************************************************************************)
\* request t is a new-student submission that derived its id with new_student_id
DerivedNewId(t) ==
    /\ pc[t] # "idle"
    /\ form[t].student_mode = "new"
    /\ form[t].student_identifier = ""
    /\ loc[t].resolved_student # NoStudent

\* C20: two new-student submissions that derived their ids with new_student_id and
\* both succeeded have two distinct student ids, each with its row in the table.
C20_NewStudentsGetDistinctIds ==
    \A s, t \in Threads :
        (s # t /\ DerivedNewId(s) /\ DerivedNewId(t) /\ Succeeded(s) /\ Succeeded(t)) =>
            /\ loc[s].resolved_student.id # loc[t].resolved_student.id
            /\ loc[s].resolved_student.id \in DOMAIN students
            /\ loc[t].resolved_student.id \in DOMAIN students

====
